---- MODULE Spec2Model ----
(***************************************************************************)
(* A model of wgconfig.WGConfig (src/src/wgconfig/__init__.py): the line   *)
(* buffer `lines`, the lazily built section index `_interface` / `_peers`, *)
(* and the public operations that edit the buffer and invalidate the index. *)
(*                                                                         *)
(* Text.  A line is a sequence of symbols.  A symbol is a one-character    *)
(* string (" ", "#", "!", "=", ",", "[", "]", a digit) or a word: a run of *)
(* letters that no operation of the program ever splits ("Peer", "K1").    *)
(* Every string operation of the source (strip, partition, split, replace, *)
(* startswith, isnumeric, int, str, lower, format, join) is computed on    *)
(* these sequences the way Python computes it on the characters.           *)
(* Line numbers are zero-based, as in the source; At(s, i) reads s[i].     *)
(***************************************************************************)
EXTENDS Integers, Sequences, FiniteSets, TLC

VARIABLES lines, _interface, _peers, call, before, prev, steps, wasDisabled, origin,
          loaded, added

vars == <<lines, _interface, _peers, call, before, prev, steps, wasDisabled, origin, loaded, added>>

-----------------------------------------------------------------------------
(* Python string primitives on symbol sequences *)

Digits == <<"0", "1", "2", "3", "4", "5", "6", "7", "8", "9">>

IsDigit(c) == \E d \in DOMAIN Digits : Digits[d] = c

DigitValue(c) == (CHOOSE d \in DOMAIN Digits : Digits[d] = c) - 1

At(s, i) == s[i + 1]

\* s[a:b] of Python, for 0 <= a
Slice(s, a, b) == SubSeq(s, a + 1, IF b > Len(s) THEN Len(s) ELSE b)

StartsWith(s, p) == Len(s) >= Len(p) /\ SubSeq(s, 1, Len(p)) = p

RECURSIVE LStrip(_)
LStrip(s) == IF s # <<>> /\ Head(s) = " " THEN LStrip(Tail(s)) ELSE s

RECURSIVE RStrip(_)
RStrip(s) ==
    IF s # <<>> /\ s[Len(s)] = " " THEN RStrip(SubSeq(s, 1, Len(s) - 1)) ELSE s

Strip(s) == LStrip(RStrip(s))

\* s.replace(old, ''): every non-overlapping occurrence, scanning from the left
RECURSIVE Replace(_, _)
Replace(s, old) ==
    IF s = <<>> THEN <<>>
    ELSE IF StartsWith(s, old) THEN Replace(SubSeq(s, Len(old) + 1, Len(s)), old)
    ELSE <<Head(s)>> \o Replace(Tail(s), old)

\* index (1-based) of the first c in s, 0 when there is none
RECURSIVE Find(_, _)
Find(s, c) ==
    IF s = <<>> THEN 0
    ELSE IF Head(s) = c THEN 1
    ELSE LET r == Find(Tail(s), c) IN IF r = 0 THEN 0 ELSE r + 1

\* s.partition(c)
Partition(s, c) ==
    LET k == Find(s, c) IN
    IF k = 0 THEN [head |-> s, sep |-> <<>>, tail |-> <<>>]
    ELSE [head |-> SubSeq(s, 1, k - 1), sep |-> <<c>>, tail |-> SubSeq(s, k + 1, Len(s))]

\* s.split(c): always at least one piece
RECURSIVE Split(_, _)
Split(s, c) ==
    LET k == Find(s, c) IN
    IF k = 0 THEN <<s>>
    ELSE <<SubSeq(s, 1, k - 1)>> \o Split(SubSeq(s, k + 1, Len(s)), c)

\* str.isnumeric(): non-empty, digits only
IsNumeric(s) == s # <<>> /\ \A k \in DOMAIN s : IsDigit(s[k])

\* int(s) for a numeric s
RECURSIVE IntOf(_)
IntOf(s) ==
    IF s = <<>> THEN 0
    ELSE 10 * IntOf(SubSeq(s, 1, Len(s) - 1)) + DigitValue(s[Len(s)])

\* str(n) for n >= 0
RECURSIVE StrOfInt(_)
StrOfInt(n) ==
    IF n < 10 THEN <<Digits[n + 1]>>
    ELSE StrOfInt(n \div 10) \o <<Digits[(n % 10) + 1]>>

\* str.lower() of one symbol
LowerSym(c) ==
    CASE c = "Interface" -> "interface"
      [] c = "Peer" -> "peer"
      [] c = "Other" -> "other"
      [] c = "PublicKey" -> "publickey"
      [] OTHER -> c

Lower(s) == [k \in DOMAIN s |-> LowerSym(s[k])]

\* sep.join(items)
RECURSIVE Join(_, _)
Join(sep, items) ==
    IF items = <<>> THEN <<>>
    ELSE IF Len(items) = 1 THEN items[1]
    ELSE items[1] \o sep \o Join(sep, Tail(items))

\* list.insert(i, x) with 0 <= i
Insert(s, i, x) ==
    IF i >= Len(s) THEN Append(s, x)
    ELSE SubSeq(s, 1, i) \o <<x>> \o SubSeq(s, i + 1, Len(s))

\* del s[i]
Delete(s, i) == SubSeq(s, 1, i) \o SubSeq(s, i + 2, Len(s))

-----------------------------------------------------------------------------
(* Values: Python int, str and None *)

IntVal(n) == [t |-> "int", n |-> n, s |-> <<>>]
StrVal(s) == [t |-> "str", n |-> 0, s |-> s]
NoneVal == [t |-> "none", n |-> 0, s |-> <<>>]

\* str(value), as format() and add_attr apply it
Str(v) == IF v.t = "int" THEN StrOfInt(v.n) ELSE IF v.t = "none" THEN <<"None">> ELSE v.s

DISABLE_MARK == <<"#", "!", " ">>

keyattr == <<"PublicKey">>

\* '{0} = {1}'.format(attr, value)
FormatAttr(attr, value) == attr \o <<" ", "=", " ">> \o Str(value)

-----------------------------------------------------------------------------
(* parse_line *)

parse_line(line) ==
    LET Items(items) == [k \in DOMAIN items |-> StrVal(Strip(items[k]))]
        Values(value) == IF IsNumeric(value) THEN <<IntVal(IntOf(value))>>
                         ELSE Items(Split(value, ","))
        Parts(attr, parts) == [attr |-> attr,
                               value |-> Values(Strip(parts.head)),
                               comment |-> parts.sep \o parts.tail]
        Line(p) == Parts(Strip(p.head), Partition(p.tail, "#"))
    IN Line(Partition(line, "="))

-----------------------------------------------------------------------------
(* parse_lines.  section_data is [attrs, firstline, lastline]: attrs is the  *)
(* dict of attribute lists in insertion order, firstline / lastline are <<>> *)
(* while the key is absent and <<i>> once it is set (the source stores [i]). *)
(* A closed section also carries rawdata and disabled.  `section` is <<>>    *)
(* for None and <<name>> otherwise; last_empty_line_in_section likewise.     *)

EmptyDict == [attrs |-> <<>>, firstline |-> <<>>, lastline |-> <<>>,
              rawdata |-> <<>>, disabled |-> <<>>]

NewSectionData == [attrs |-> <<>>, firstline |-> <<>>, lastline |-> <<>>]

\* position of attr in an attribute dict, 0 when absent
AttrIndex(attrs, attr) ==
    IF \E k \in DOMAIN attrs : attrs[k].name = attr
    THEN CHOOSE k \in DOMAIN attrs : attrs[k].name = attr
    ELSE 0

\* section_data[attr] = section_data.get(attr, []); section_data[attr].extend(value)
ExtendAttr(attrs, attr, value) ==
    LET k == AttrIndex(attrs, attr) IN
    IF k = 0 THEN Append(attrs, [name |-> attr, vals |-> value])
    ELSE [attrs EXCEPT ![k].vals = @ \o value]

\* position of a key in the peers dict, 0 when absent
PeerIndex(peers, key) ==
    IF \E k \in DOMAIN peers : peers[k].key = key
    THEN CHOOSE k \in DOMAIN peers : peers[k].key = key
    ELSE 0

\* self._peers[peername] = section_data (a dict keeps the position of a key it has)
DictSet(peers, key, data) ==
    LET k == PeerIndex(peers, key) IN
    IF k = 0 THEN Append(peers, [key |-> key, data |-> data])
    ELSE [peers EXCEPT ![k].data = data]

\* v if len(v) > 1 else v[0]: `many` tells a list from the scalar vals[1]
Collapse(vals) == [many |-> Len(vals) > 1, vals |-> vals]

\* the closed record: rawdata is the slice of the buffer, disabled looks at its first line
ClosedSection(section_data, lns) ==
    LET raw == Slice(lns, section_data.firstline[1], section_data.lastline[1] + 1) IN
    [attrs |-> [k \in DOMAIN section_data.attrs |->
                   [name |-> section_data.attrs[k].name,
                    value |-> Collapse(section_data.attrs[k].vals)]],
     firstline |-> section_data.firstline,
     lastline |-> section_data.lastline,
     rawdata |-> raw,
     disabled |-> <<StartsWith(raw[1], DISABLE_MARK)>>]

\* close_section: st is the parse state, the result is the parse state after it
close_section(st, lns) ==
    LET SetPeer(closed, k) ==
            IF k # 0 /\ closed.attrs[k].value.many
            THEN [st EXCEPT !.err = "TypeError"]  \* a list is no dict key
            ELSE [st EXCEPT !.peers =
                     DictSet(@, IF k = 0 THEN NoneVal ELSE closed.attrs[k].value.vals[1],
                             closed)]
        Close(closed) ==
            IF st.section[1] = <<"interface">>
            THEN [st EXCEPT !.interface = closed]
            ELSE SetPeer(closed, AttrIndex(closed.attrs, keyattr))
    IN IF st.section = <<>> THEN st ELSE Close(ClosedSection(st.section_data, lns))

\* the body of the for loop for line i
ParseStep(st, i, lns) ==
    LET Open(closed, name, first) ==
            IF closed.err # "ok" THEN closed
            ELSE [closed EXCEPT
                    !.section = <<name>>,
                    !.section_data = [NewSectionData EXCEPT !.firstline = <<first>>,
                                                            !.lastline = <<i>>],
                    !.last_empty = <<>>,
                    !.err = IF name \in {<<"interface">>, <<"peer">>}
                            THEN "ok" ELSE "ValueError"]
        Section(line) ==
            Open(close_section(
                    IF st.last_empty # <<>>
                    THEN [st EXCEPT !.section_data.lastline = <<st.last_empty[1] - 1>>]
                    ELSE st, lns),
                 Lower(Partition(Tail(line), "]").head),
                 IF st.last_empty = <<>> THEN i ELSE st.last_empty[1] + 1)
        Attribute(pl) ==
            [st EXCEPT !.section_data.attrs = ExtendAttr(@, pl.attr, pl.value),
                       !.section_data.lastline = <<i>>]
        Line(line) ==
            IF Len(line) = 0 THEN [st EXCEPT !.last_empty = <<i>>]
            ELSE IF StartsWith(line, <<"[">>) THEN Section(line)
            ELSE IF StartsWith(line, <<"#">>) THEN [st EXCEPT !.section_data.lastline = <<i>>]
            ELSE Attribute(parse_line(line))
    IN Line(Strip(Replace(At(lns, i), DISABLE_MARK)))

\* the for loop from line i on, and the close_section that follows it
RECURSIVE ParseFrom(_, _, _)
ParseFrom(st, i, lns) ==
    IF st.err # "ok" THEN st
    ELSE IF i >= Len(lns) THEN close_section(st, lns)
    ELSE ParseFrom(ParseStep(st, i, lns), i + 1, lns)

\* parse_lines: the index it leaves in _interface / _peers, and how it ended.
\* An exception leaves what was assigned before it was raised.
parse_lines(lns) ==
    LET Index(st) == [interface |-> st.interface, peers |-> st.peers, err |-> st.err] IN
    Index(ParseFrom([section |-> <<>>, section_data |-> NewSectionData,
                     last_empty |-> <<0 - 1>>, interface |-> EmptyDict,
                     peers |-> <<>>, err |-> "ok"], 0, lns))

-----------------------------------------------------------------------------
(* The object.  self is [lines, _interface, _peers]; a cache field is <<>>   *)
(* for None and <<value>> once built.  A method is an operator from self (and *)
(* its arguments) to [self, result, ret]: the object after the call, "ok" or  *)
(* the exception raised, and the value returned (a sequence).  An optional    *)
(* argument is <<>> for None and <<x>> otherwise; a key or value argument is  *)
(* a value record (NoneVal for None).  In a method, c is the outcome of       *)
(* reading the property `interface` or `peers`.                              *)

Outcome(self, result, ret) == [self |-> self, result |-> result, ret |-> ret]

invalidate_data(self) == [self EXCEPT !._interface = <<>>, !._peers = <<>>]

\* what parse_lines leaves in the object, and how it ended
RunParse(self) ==
    LET Store(r) ==
            Outcome([self EXCEPT !._interface = <<r.interface>>, !._peers = <<r.peers>>],
                    r.err, <<>>)
    IN Store(parse_lines(self.lines))

\* the property `interface`: self._interface is read after a parse that did not raise
interface(self) ==
    IF self._interface = <<>> THEN RunParse(self) ELSE Outcome(self, "ok", <<>>)

\* the property `peers`
peers(self) ==
    IF self._peers = <<>> THEN RunParse(self) ELSE Outcome(self, "ok", <<>>)

read_from_fileobj(self, fobj) ==
    Outcome(invalidate_data([self EXCEPT !.lines = [k \in DOMAIN fobj |-> RStrip(fobj[k])]]),
            "ok", <<>>)

\* the lines write_to_fileobj hands to the file object (each followed by a newline)
write_to_fileobj(self) == self.lines

handle_leading_comment(self, leading_comment) ==
    IF leading_comment = <<>> THEN Outcome(self, "ok", <<>>)
    ELSE IF Strip(leading_comment[1]) = <<>> THEN Outcome(self, "IndexError", <<>>)
    ELSE IF Strip(leading_comment[1])[1] # "#" THEN Outcome(self, "ValueError", <<>>)
    ELSE Outcome([self EXCEPT !.lines = Append(@, leading_comment[1])], "ok", <<>>)

initialize_file(self, leading_comment) ==
    LET Start(h) ==
            IF h.result # "ok" THEN h
            ELSE Outcome(invalidate_data(
                    [h.self EXCEPT !.lines = Append(@, <<"[", "Interface", "]">>)]),
                    "ok", <<>>)
    IN Start(handle_leading_comment([self EXCEPT !.lines = <<>>], leading_comment))

\* the attributes a query returns: keys starting with an underscore filtered out
get_filtered_dictionary(data) == data.attrs

get_interface(self) ==
    LET Get(c) ==
            IF c.result # "ok" THEN c
            ELSE Outcome(c.self, "ok", get_filtered_dictionary(c.self._interface[1]))
    IN Get(interface(self))

\* value.get('_disabled', False)
IsDisabled(data) == data.disabled # <<>> /\ data.disabled[1]

\* get_peers(keys_only=True, include_disabled): the list of keys
get_peers(self, include_disabled) ==
    LET Get(c) ==
            IF c.result # "ok" THEN c
            ELSE LET d == c.self._peers[1] IN
                 Outcome(c.self, "ok",
                         SelectSeq([k \in DOMAIN d |-> d[k].key],
                                   LAMBDA key : include_disabled
                                                \/ ~IsDisabled(d[PeerIndex(d, key)].data)))
    IN Get(peers(self))

\* get_peer(key, include_details=True): the whole record of the peer
get_peer(self, key) ==
    LET Get(c) ==
            IF c.result # "ok" THEN c
            ELSE IF PeerIndex(c.self._peers[1], key) = 0
            THEN Outcome(c.self, "KeyError", <<>>)
            ELSE Outcome(c.self, "ok",
                         <<c.self._peers[1][PeerIndex(c.self._peers[1], key)].data>>)
    IN Get(peers(self))

get_peer_enabled(self, key) ==
    LET Get(g) ==
            IF g.result # "ok" THEN g ELSE Outcome(g.self, "ok", <<~IsDisabled(g.ret[1])>>)
    IN Get(get_peer(self, key))

\* add_peer appending the separating blank line before it looks for the key
add_peer_AppendsFirst(self, key, leading_comment) ==
    LET Section(h) ==
            IF h.result # "ok" THEN h
            ELSE Outcome(invalidate_data(
                    [h.self EXCEPT !.lines = @ \o <<<<"[", "Peer", "]">>,
                                                    FormatAttr(keyattr, key)>>]),
                    "ok", <<>>)
        Add(c) ==
            IF c.result # "ok" THEN c
            ELSE IF PeerIndex(c.self._peers[1], key) # 0
            THEN Outcome([c.self EXCEPT !.lines = Append(@, <<>>)], "KeyError", <<>>)
            ELSE Section(handle_leading_comment([c.self EXCEPT !.lines = Append(@, <<>>)],
                                                leading_comment))
    IN Add(peers(self))

add_peer(self, key, leading_comment) ==
    LET Section(h) ==
            IF h.result # "ok" THEN h
            ELSE Outcome(invalidate_data(
                    [h.self EXCEPT !.lines = @ \o <<<<"[", "Peer", "]">>,
                                                    FormatAttr(keyattr, key)>>]),
                    "ok", <<>>)
        Add(c) ==
            IF c.result # "ok" THEN c
            ELSE IF PeerIndex(c.self._peers[1], key) # 0
            THEN Outcome(c.self, "KeyError", <<>>)
            ELSE Section(handle_leading_comment([c.self EXCEPT !.lines = Append(@, <<>>)],
                                                leading_comment))
    IN Add(peers(self))

\* del_peer keeping the last line of the section: lines[section_lastline:]
del_peer_KeepsLastLine(self, key) ==
    LET Cut(obj, section_firstline, section_lastline) ==
            Outcome(invalidate_data(
                       [obj EXCEPT !.lines =
                           (IF section_firstline > 0
                            THEN Slice(@, 0, section_firstline) ELSE <<>>)
                           \o Slice(@, section_lastline, Len(@))]),
                    "ok", <<>>)
        Section(obj, first, last) ==
            IF first > 0 /\ first - 1 >= Len(obj.lines)
            THEN Outcome(obj, "IndexError", <<>>)
            ELSE Cut(obj,
                     IF first > 0 /\ Len(At(obj.lines, first - 1)) = 0
                     THEN first - 1 ELSE first,
                     last)
        Peer(obj, data) == Section(obj, data.firstline[1], data.lastline[1])
        Del(c) ==
            IF c.result # "ok" THEN c
            ELSE IF PeerIndex(c.self._peers[1], key) = 0
            THEN Outcome(c.self, "KeyError", <<>>)
            ELSE Peer(c.self, c.self._peers[1][PeerIndex(c.self._peers[1], key)].data)
    IN Del(peers(self))

del_peer(self, key) ==
    LET Cut(obj, section_firstline, section_lastline) ==
            Outcome(invalidate_data(
                       [obj EXCEPT !.lines =
                           (IF section_firstline > 0
                            THEN Slice(@, 0, section_firstline) ELSE <<>>)
                           \o Slice(@, section_lastline + 1, Len(@))]),
                    "ok", <<>>)
        \* the blank line before the section goes with it
        Section(obj, first, last) ==
            IF first > 0 /\ first - 1 >= Len(obj.lines)
            THEN Outcome(obj, "IndexError", <<>>)
            ELSE Cut(obj,
                     IF first > 0 /\ Len(At(obj.lines, first - 1)) = 0
                     THEN first - 1 ELSE first,
                     last)
        Peer(obj, data) == Section(obj, data.firstline[1], data.lastline[1])
        Del(c) ==
            IF c.result # "ok" THEN c
            ELSE IF PeerIndex(c.self._peers[1], key) = 0
            THEN Outcome(c.self, "KeyError", <<>>)
            ELSE Peer(c.self, c.self._peers[1][PeerIndex(c.self._peers[1], key)].data)
    IN Del(peers(self))

\* get_sectioninfo: ret is <<section_firstline, section_lastline>>
get_sectioninfo(self, key) ==
    LET Bounds(obj, data) ==
            IF data.firstline = <<>> THEN Outcome(obj, "KeyError", <<>>)
            ELSE Outcome(obj, "ok", <<data.firstline[1], data.lastline[1]>>)
        Interface(c) ==
            IF c.result # "ok" THEN c ELSE Bounds(c.self, c.self._interface[1])
        Peer(c) ==
            IF c.result # "ok" THEN c
            ELSE IF PeerIndex(c.self._peers[1], key) = 0
            THEN Outcome(c.self, "KeyError", <<>>)
            ELSE Bounds(c.self, c.self._peers[1][PeerIndex(c.self._peers[1], key)].data)
    IN IF key = NoneVal THEN Interface(interface(self)) ELSE Peer(peers(self))

\* the lines i of range(first + 1, last + 1) whose decoded attribute name is attr
\* and (when a value is given) whose decoded values contain it
MatchingLines(lns, first, last, attr, value) ==
    LET Match(pl) ==
            /\ pl.attr = attr
            /\ value = NoneVal \/ \E k \in DOMAIN pl.value : pl.value[k] = value
    IN {i \in (first + 1)..last : Match(parse_line(At(lns, i)))}

Max(S) == CHOOSE x \in S : \A y \in S : y <= x
Min(S) == CHOOSE x \in S : \A y \in S : x <= y

add_attr(self, key, attr, value, leading_comment, append_as_line) ==
    LET Comment(lns, line_found) ==
            IF leading_comment # <<>> THEN Insert(lns, line_found, leading_comment[1])
            ELSE lns
        \* the line rewritten with the value appended to its values
        Extended(pl) ==
            pl.attr \o <<" ", "=", " ">>
            \o Join(<<",", " ">>, [k \in DOMAIN pl.value |-> Str(pl.value[k])] \o <<Str(value)>>)
            \o (IF Len(pl.comment) > 0 THEN <<" ">> \o pl.comment ELSE pl.comment)
        InsertAt(lns, line_found) ==
            Comment(Insert(lns, line_found, FormatAttr(attr, value)), line_found)
        RewriteAt(lns, line_found) ==
            Comment([lns EXCEPT ![line_found + 1] = Extended(parse_line(At(lns, line_found)))],
                    line_found)
        Place(lns, section_lastline, found) ==
            IF found = {} THEN InsertAt(lns, section_lastline + 1)
            ELSE IF append_as_line THEN InsertAt(lns, Max(found) + 1)
            ELSE RewriteAt(lns, Max(found))
        Add(info) ==
            IF info.result # "ok" THEN info
            ELSE IF leading_comment # <<>> /\ Strip(leading_comment[1]) = <<>>
            THEN Outcome(info.self, "IndexError", <<>>)
            ELSE IF leading_comment # <<>> /\ Strip(leading_comment[1])[1] # "#"
            THEN Outcome(info.self, "ValueError", <<>>)
            ELSE IF \E i \in (info.ret[1] + 1)..info.ret[2] : i >= Len(info.self.lines)
            THEN Outcome(info.self, "IndexError", <<>>)
            ELSE Outcome(invalidate_data(
                    [info.self EXCEPT !.lines =
                        Place(@, info.ret[2],
                              MatchingLines(@, info.ret[1], info.ret[2], attr, NoneVal))]),
                    "ok", <<>>)
    IN Add(get_sectioninfo(self, key))

\* list.remove(value): the first occurrence goes
RemoveFirst(vals, value) ==
    LET k == CHOOSE j \in DOMAIN vals :
                 vals[j] = value /\ \A h \in 1..(j - 1) : vals[h] # value
    IN SubSeq(vals, 1, k - 1) \o SubSeq(vals, k + 1, Len(vals))

\* one pass of the loop over reversed(line_found), for line i
DelAttrLine(lns, i, value) ==
    LET Keep(pl, line_value) ==
            IF Len(line_value) > 0
            THEN [lns EXCEPT ![i + 1] =
                     pl.attr \o <<" ", "=", " ">>
                     \o Join(<<",", " ">>, [k \in DOMAIN line_value |-> line_value[k].s])
                     \o pl.comment]
            ELSE Delete(lns, i)
        Line(pl) == Keep(pl, RemoveFirst(pl.value, value))
    IN IF value = NoneVal THEN Delete(lns, i) ELSE Line(parse_line(At(lns, i)))

RECURSIVE DelAttrLines(_, _, _)
DelAttrLines(lns, found, value) ==
    IF found = {} THEN lns
    ELSE DelAttrLines(DelAttrLine(lns, Max(found), value), found \ {Max(found)}, value)

\* the while loop that removes the comment lines above line i + 1
RECURSIVE RemoveLeadingComments(_, _)
RemoveLeadingComments(lns, i) ==
    IF i > 0 /\ Len(At(lns, i)) # 0 /\ At(lns, i)[1] = "#"
    THEN RemoveLeadingComments(Delete(lns, i), i - 1)
    ELSE lns

del_attr(self, key, attr, value, remove_leading_comments) ==
    LET Leading(lns, i) ==
            IF remove_leading_comments THEN RemoveLeadingComments(lns, i) ELSE lns
        Del(obj, line_found) ==
            IF line_found = {} THEN Outcome(obj, "ValueError", <<>>)
            ELSE Outcome(invalidate_data(
                    [obj EXCEPT !.lines =
                        Leading(DelAttrLines(@, line_found, value), Min(line_found) - 1)]),
                    "ok", <<>>)
        Scan(info) ==
            IF info.result # "ok" THEN info
            ELSE IF \E i \in (info.ret[1] + 1)..info.ret[2] : i >= Len(info.self.lines)
            THEN Outcome(info.self, "IndexError", <<>>)
            ELSE Del(info.self,
                     MatchingLines(info.self.lines, info.ret[1], info.ret[2], attr, value))
    IN Scan(get_sectioninfo(self, key))

\* section_firstline <= i <= section_lastline
InSection(data, i) == data.firstline[1] <= i /\ i <= data.lastline[1]

RemoveMark(line) == Replace(line, DISABLE_MARK)

AddMark(line) == DISABLE_MARK \o line

\* the lines with the marker removed from those of the section
EnabledLines(lns, data) ==
    [k \in DOMAIN lns |-> IF InSection(data, k - 1) THEN RemoveMark(lns[k]) ELSE lns[k]]

\* the lines with the marker put before those of the section
DisabledLines(lns, data) ==
    [k \in DOMAIN lns |-> IF InSection(data, k - 1) THEN AddMark(lns[k]) ELSE lns[k]]

enable_peer(self, key) ==
    LET Enable(c) ==
            IF c.result # "ok" THEN c
            ELSE IF PeerIndex(c.self._peers[1], key) = 0
            THEN Outcome(c.self, "KeyError", <<>>)
            ELSE Outcome(invalidate_data(
                    [c.self EXCEPT !.lines =
                        EnabledLines(@, c.self._peers[1][PeerIndex(c.self._peers[1], key)].data)]),
                    "ok", <<>>)
    IN Enable(peers(self))

\* disable_peer without the test for a peer that is disabled already
disable_peer_NoEnabledTest(self, key) ==
    LET Disable(c) ==
            IF c.result # "ok" THEN c
            ELSE IF PeerIndex(c.self._peers[1], key) = 0
            THEN Outcome(c.self, "KeyError", <<>>)
            ELSE Outcome(invalidate_data(
                    [c.self EXCEPT !.lines =
                        DisabledLines(@, c.self._peers[1][PeerIndex(c.self._peers[1], key)].data)]),
                    "ok", <<>>)
    IN Disable(peers(self))

disable_peer(self, key) ==
    LET Disable(c) ==
            IF c.result # "ok" THEN c
            ELSE IF PeerIndex(c.self._peers[1], key) = 0
            THEN Outcome(c.self, "KeyError", <<>>)
            ELSE IF ~get_peer_enabled(c.self, key).ret[1] THEN Outcome(c.self, "ok", <<>>)
            ELSE Outcome(invalidate_data(
                    [c.self EXCEPT !.lines =
                        DisabledLines(@, c.self._peers[1][PeerIndex(c.self._peers[1], key)].data)]),
                    "ok", <<>>)
    IN Disable(peers(self))

-----------------------------------------------------------------------------
(* The inputs of the calls *)

\* calls made on a buffer since it was loaded (or since construction)
MaxSteps == 2

Header(name) == <<"[", name, "]">>

Key(k) == StrVal(<<k>>)

KeyLine(k) == FormatAttr(keyattr, Key(k))

Marked(line) == DISABLE_MARK \o line

\* The texts read_from_fileobj is given, as the lines readlines() returns without
\* their newline
Files ==
    { \* an interface and one peer, each with an attribute, one followed by a comment
      << Header("Interface"), <<"A", " ", "=", " ", "v">>, <<>>,
         Header("Peer"), KeyLine("K1"), <<"A", " ", "=", " ", "w", " ", "#", " ", "t">> >>,
      \* leading and trailing comments, a disabled peer, trailing blanks to strip
      << Header("Interface"), <<>>,
         <<"#", " ", "c">>, Header("Peer"), KeyLine("K1") \o <<" ">>, <<"#", " ", "x">>, <<>>,
         Marked(Header("Peer")), Marked(KeyLine("K2")) >>,
      \* an unsupported section after a peer
      << Header("Interface"), <<>>, Header("Peer"), KeyLine("K1"), <<>>, Header("Other") >>,
      \* an enabled peer with one attribute line commented out by the marker
      << Header("Interface"), <<>>, Header("Peer"), KeyLine("K1"),
         Marked(<<"A", " ", "=", " ", "w">>) >>,
      \* a disabled peer to which add_attr has added an attribute
      << Header("Interface"), <<>>, Marked(Header("Peer")), Marked(KeyLine("K1")),
         <<"A", " ", "=", " ", "v">> >>,
      \* a blank line inside a section and a header that follows no blank line
      << Header("Interface"), <<>>, Header("Peer"), <<>>, KeyLine("K1"),
         Header("Peer"), KeyLine("K2") >>,
      \* two peer sections with the same key
      << Header("Interface"), <<>>, Header("Peer"), KeyLine("K1"), <<>>,
         Header("Peer"), KeyLine("K1"), <<"A", " ", "=", " ", "w">> >>,
      \* a peer without the key attribute
      << Header("Interface"), <<"A", " ", "=", " ", "0", "7">>, <<>>,
         Header("Peer"), <<"A", " ", "=", " ", "v">> >> }

Keys == {Key("K1"), Key("K2")}

\* a key written with digits only
NumKey == Key("5")

\* the key a lookup in the peers dict is given: a key, or None
PeerKeys == Keys \cup {NumKey, NoneVal}

\* None (the interface) or a peer key
Sections == {NoneVal, Key("K1")}

\* leading_comment: None, a comment, a text that is no comment, a comment that
\* starts with the disable marker
Comments == {<<>>, << <<"#", " ", "c">> >>, << <<"c">> >>, << <<"#", "!", " ", "c">> >>}

AddAttrArgs ==
    {[attr |-> <<"A">>, value |-> Key("v"), comment |-> c, flag |-> FALSE] :
        c \in Comments \ {<< <<"#", "!", " ", "c">> >>}}
    \cup {[attr |-> <<"A">>, value |-> Key("v"), comment |-> <<>>, flag |-> TRUE],
          [attr |-> <<"A">>, value |-> IntVal(5), comment |-> <<>>, flag |-> FALSE],
          [attr |-> keyattr, value |-> Key("v"), comment |-> <<>>, flag |-> FALSE]}

DelAttrArgs ==
    {[attr |-> <<"A">>, value |-> v, flag |-> TRUE] : v \in {NoneVal, Key("v"), IntVal(5)}}
    \cup {[attr |-> <<"A">>, value |-> NoneVal, flag |-> FALSE]}

-----------------------------------------------------------------------------
(* The state machine.  `call` records the last call (its arguments, how it   *)
(* ended, what it returned, and whether the index was unbuilt or equal to a  *)
(* parse of the buffer when it started), `before` the buffer it started      *)
(* from, `prev` the successful add_peer / add_attr / disable_peer call that  *)
(* came directly before it, `wasDisabled` the keys disabled by a successful  *)
(* disable_peer and not named in an enable_peer or del_peer call (nor        *)
(* replaced with the buffer) since, `origin` the buffer as it was last       *)
(* loaded or initialized (empty when initialize_file raised), `loaded` the    *)
(* text given to read_from_fileobj while only queries were called since,     *)
(* `added` the keys given to add_peer and not to del_peer since the object   *)
(* was constructed or initialized, while every call since was a query or an  *)
(* accepted add_peer, del_peer, add_attr, del_attr, enable_peer or           *)
(* disable_peer (<<>> otherwise).                                            *)

Self == [lines |-> lines, _interface |-> _interface, _peers |-> _peers]

Fresh(lns) == [lines |-> lns, _interface |-> <<>>, _peers |-> <<>>]

\* the index is unbuilt, or is what a parse of the buffer gives without raising
Coherent(self) ==
    LET Same(r) ==
            r.err = "ok" /\ self._interface = <<r.interface>> /\ self._peers = <<r.peers>>
    IN \/ self._interface = <<>> /\ self._peers = <<>>
       \/ Same(parse_lines(self.lines))

\* every line of a disabled peer starts with the marker, no line of an enabled one does
WellMarked(lns) ==
    LET Marks(r) ==
            /\ r.err = "ok"
            /\ \A k \in DOMAIN r.peers :
                  \A j \in DOMAIN r.peers[k].data.rawdata :
                     StartsWith(r.peers[k].data.rawdata[j], DISABLE_MARK)
                        = IsDisabled(r.peers[k].data)
    IN Marks(parse_lines(lns))

\* `seen` is what get_peer(key) answered when an enable_peer or disable_peer started,
\* `text` the lines read_from_fileobj was given
NoCall == [op |-> "__init__", key |-> NoneVal, attr |-> <<>>, value |-> NoneVal,
           comment |-> <<>>, flag |-> FALSE, result |-> "ok", ret |-> <<>>,
           coherent |-> TRUE, seen |-> <<>>, text |-> <<>>]

\* the record get_peer(key) returns, <<>> when it raises
Seen(self, key) ==
    LET Answer(g) == IF g.result = "ok" THEN g.ret ELSE <<>> IN Answer(get_peer(self, key))

NoPrev == [call |-> NoCall, before |-> <<>>]

PairOps == {"add_peer", "add_attr", "disable_peer"}

\* the calls that only read
Queries == {"get_interface", "get_peers", "get_peer", "get_peer_enabled"}

Init ==
    /\ lines = <<Header("Interface")>>
    /\ _interface = <<>>
    /\ _peers = <<>>
    /\ call = NoCall
    /\ before = <<>>
    /\ prev = NoPrev
    /\ steps = 0
    /\ wasDisabled = {}
    /\ origin = <<Header("Interface")>>
    /\ loaded = <<>>
    /\ added = <<{}>>

\* the state after a call `c` (op and arguments) that ended as `o`
Apply(c, o) ==
    /\ steps < MaxSteps
    /\ loaded' = IF c.op = "read_from_fileobj" THEN <<c.text>>
                 ELSE IF c.op \in Queries THEN loaded ELSE <<>>
    /\ added' = IF c.op = "initialize_file" /\ o.result = "ok" THEN <<{}>>
                ELSE IF c.op \in {"read_from_fileobj", "initialize_file"} \/ added = <<>>
                THEN <<>>
                ELSE IF c.op \in Queries THEN added
                ELSE IF o.result # "ok" THEN <<>>
                ELSE IF c.op = "add_peer" THEN <<added[1] \cup {c.key}>>
                ELSE IF c.op = "del_peer" THEN <<added[1] \ {c.key}>>
                ELSE added
    /\ \E out \in {o} :
          /\ steps' = IF c.op = "read_from_fileobj" THEN 0 ELSE steps + 1
          /\ lines' = out.self.lines
          /\ _interface' = out.self._interface
          /\ _peers' = out.self._peers
          /\ call' = [c EXCEPT !.result = out.result, !.ret = out.ret,
                               !.coherent = c.op = "read_from_fileobj" \/ Coherent(Self),
                               !.seen = IF c.op \in {"enable_peer", "disable_peer"}
                                        THEN Seen(Self, c.key) ELSE <<>>]
          /\ before' = IF c.op = "read_from_fileobj" THEN <<>> ELSE lines
          /\ prev' = IF call.op \in PairOps /\ call.result = "ok"
                        /\ c.op # "read_from_fileobj"
                     THEN [call |-> [call EXCEPT !.ret = <<>>], before |-> before]
                     ELSE NoPrev
          /\ wasDisabled' =
                IF c.op \in {"read_from_fileobj", "initialize_file"} THEN {}
                ELSE IF c.op = "disable_peer" /\ out.result = "ok"
                THEN wasDisabled \cup {c.key}
                ELSE IF c.op \in {"enable_peer", "del_peer"} THEN wasDisabled \ {c.key}
                ELSE wasDisabled
          /\ origin' =
                IF c.op = "read_from_fileobj" THEN out.self.lines
                ELSE IF c.op = "initialize_file" /\ out.result = "ok" THEN out.self.lines
                ELSE IF c.op = "initialize_file" THEN <<>>
                ELSE origin

ReadFromFileobj ==
    \E fobj \in Files :
        Apply([NoCall EXCEPT !.op = "read_from_fileobj", !.text = fobj],
              read_from_fileobj(Self, fobj))

InitializeFile ==
    \E c \in Comments :
        Apply([NoCall EXCEPT !.op = "initialize_file", !.comment = c],
              initialize_file(Self, c))

GetInterface ==
    Apply([NoCall EXCEPT !.op = "get_interface"], get_interface(Self))

GetPeers ==
    \E d \in BOOLEAN :
        Apply([NoCall EXCEPT !.op = "get_peers", !.flag = d], get_peers(Self, d))

GetPeer ==
    \E k \in PeerKeys :
        Apply([NoCall EXCEPT !.op = "get_peer", !.key = k], get_peer(Self, k))

GetPeerEnabled ==
    \E k \in PeerKeys :
        Apply([NoCall EXCEPT !.op = "get_peer_enabled", !.key = k], get_peer_enabled(Self, k))

AddPeer ==
    \E k \in Keys \cup {NumKey}, c \in Comments :
        (k = NumKey => c = <<>>) /\
        Apply([NoCall EXCEPT !.op = "add_peer", !.key = k, !.comment = c],
              add_peer(Self, k, c))

DelPeer ==
    \E k \in PeerKeys :
        Apply([NoCall EXCEPT !.op = "del_peer", !.key = k], del_peer(Self, k))

AddAttr ==
    \E k \in Sections, a \in AddAttrArgs :
        Apply([NoCall EXCEPT !.op = "add_attr", !.key = k, !.attr = a.attr,
                             !.value = a.value, !.comment = a.comment, !.flag = a.flag],
              add_attr(Self, k, a.attr, a.value, a.comment, a.flag))

DelAttr ==
    \E k \in Sections, a \in DelAttrArgs :
        Apply([NoCall EXCEPT !.op = "del_attr", !.key = k, !.attr = a.attr,
                             !.value = a.value, !.flag = a.flag],
              del_attr(Self, k, a.attr, a.value, a.flag))

EnablePeer ==
    \E k \in PeerKeys :
        Apply([NoCall EXCEPT !.op = "enable_peer", !.key = k], enable_peer(Self, k))

DisablePeer ==
    \E k \in PeerKeys :
        Apply([NoCall EXCEPT !.op = "disable_peer", !.key = k], disable_peer(Self, k))

Next ==
    \/ ReadFromFileobj
    \/ InitializeFile
    \/ GetInterface
    \/ GetPeers
    \/ GetPeer
    \/ GetPeerEnabled
    \/ AddPeer
    \/ DelPeer
    \/ AddAttr
    \/ DelAttr
    \/ EnablePeer
    \/ DisablePeer

Spec == Init /\ [][Next]_vars

-----------------------------------------------------------------------------
(* What the queries answer on a buffer read by an object with no index built *)

Listed(lns, include_disabled) == get_peers(Fresh(lns), include_disabled)

Contains(seq, x) == \E k \in DOMAIN seq : seq[k] = x

IsPeerKey(key) == key # NoneVal

\* leading_comment is given and its first non-blank character is not '#'
NotAComment(c) == c # <<>> /\ Strip(c[1]) # <<>> /\ Strip(c[1])[1] # "#"

\* the calls that read the properties `interface` or `peers`
IndexCalls ==
    {"get_interface", "get_peers", "get_peer", "get_peer_enabled", "add_peer", "del_peer",
     "add_attr", "del_attr", "enable_peer", "disable_peer"}

\* a line that parse_lines takes for a section header naming no supported section
UnsupportedHeader(line) ==
    LET l == Strip(Replace(line, DISABLE_MARK)) IN
    /\ StartsWith(l, <<"[">>)
    /\ Lower(Partition(Tail(l), "]").head) \notin {<<"interface">>, <<"peer">>}

-----------------------------------------------------------------------------
(* C1 *)

\* C1: whenever the index is built, _interface and _peers are what a parse_lines
\* pass over the current buffer leaves in them (what it had assigned when it
\* raised, if it raises).
C1_IndexMatchesBuffer ==
    LET r == parse_lines(lines) IN
    /\ _interface # <<>> => _interface = <<r.interface>>
    /\ _peers # <<>> => _peers = <<r.peers>>

-----------------------------------------------------------------------------
(* C2 *)

\* C2: add_peer, add_attr or initialize_file called with a leading comment that does
\* not start with '#' fails and leaves the buffer as it was before the call.
C2_BadCommentNoChange ==
    (call.op \in {"add_peer", "add_attr", "initialize_file"} /\ NotAComment(call.comment))
        => (call.result # "ok" /\ lines = before)

-----------------------------------------------------------------------------
(* C3 *)

\* C3: while the buffer holds a header of an unsupported section, every call that
\* needs the index fails, on the first access and on every later one.
C3_UnsupportedSectionAlwaysFails ==
    (call.op \in IndexCalls /\ \E k \in DOMAIN before : UnsupportedHeader(before[k]))
        => call.result # "ok"

-----------------------------------------------------------------------------
(* C4 *)

\* get_peer_enabled(key) answers True on the buffer
EnabledIn(lns, key) ==
    LET g == get_peer_enabled(Fresh(lns), key) IN g.result = "ok" /\ g.ret = <<TRUE>>

\* the call is `op` on the key of the successful call `first` made directly before it
Follows(op, first) ==
    /\ call.op = op
    /\ prev.call.op = first
    /\ prev.call.key = call.key
    /\ prev.call.coherent

\* C4: disable_peer(K) on an enabled peer K followed by enable_peer(K) leaves the
\* buffer exactly as it was before the disable_peer.
C4_DisableEnableRestores ==
    (Follows("enable_peer", "disable_peer") /\ call.result = "ok"
     /\ EnabledIn(prev.before, call.key))
        => lines = prev.before

-----------------------------------------------------------------------------
(* C5 *)

DoubleMarked(line) == StartsWith(line, DISABLE_MARK \o DISABLE_MARK)

\* a second disable_peer(K) directly after a successful one leaves the buffer alone
DisableTwiceSame ==
    (call.op = "disable_peer" /\ prev.call.op = "disable_peer" /\ prev.call.key = call.key)
        => lines = before

\* C5 as claimed: disable_peer is idempotent, and after a disable_peer no line
\* carries the marker twice.
C5_IdempotentNoDoubleMark ==
    /\ DisableTwiceSame
    /\ (call.op = "disable_peer" /\ call.result = "ok")
          => \A k \in DOMAIN lines : ~DoubleMarked(lines[k])

\* C5 as amended: disable_peer is idempotent, and after a disable_peer a line
\* carries the marker twice only if it already started with the marker before the call.
C5_IdempotentMarkOnce ==
    /\ DisableTwiceSame
    /\ (call.op = "disable_peer" /\ call.result = "ok")
          => /\ Len(lines) = Len(before)
             /\ \A k \in DOMAIN lines :
                   DoubleMarked(lines[k]) => StartsWith(before[k], DISABLE_MARK)

\* a second disable_peer(K) after one that marked the lines, one of them twice
C5_Witness ==
    /\ Follows("disable_peer", "disable_peer")
    /\ call.result = "ok"
    /\ prev.before # before
    /\ \E k \in DOMAIN lines : DoubleMarked(lines[k])

-----------------------------------------------------------------------------
(* C6 *)

\* the record of peer `key` in a parse of the buffer (<<>> when there is none)
PeerIn(lns, key) == get_peer(Fresh(lns), key).ret

IsCommentLine(line) == StartsWith(Strip(Replace(line, DISABLE_MARK)), <<"#">>)

CommentLines(data) == SelectSeq(data.rawdata, IsCommentLine)

AttrNames(data) == {data.attrs[k].name : k \in DOMAIN data.attrs}

\* C6: add_attr(K, A, v) on a peer K without attribute A followed by del_attr(K, A, v),
\* both with default arguments, gives back a section with as many lines, the same
\* comment lines and the same attribute names.
C6_AddDelAttrRestores ==
    (/\ Follows("del_attr", "add_attr")
     /\ IsPeerKey(call.key)
     /\ call.attr = prev.call.attr /\ call.value = prev.call.value /\ call.flag
     /\ prev.call.comment = <<>> /\ ~prev.call.flag
     /\ PeerIn(prev.before, call.key) # <<>>
     /\ call.attr \notin AttrNames(PeerIn(prev.before, call.key)[1]))
        => /\ call.result = "ok"
           /\ PeerIn(lines, call.key) # <<>>
           /\ LET b == PeerIn(prev.before, call.key)[1]
                  a == PeerIn(lines, call.key)[1]
              IN /\ Len(a.rawdata) = Len(b.rawdata)
                 /\ CommentLines(a) = CommentLines(b)
                 /\ AttrNames(a) = AttrNames(b)

-----------------------------------------------------------------------------
(* C7 *)

\* C7: add_peer(K) of a key that is not listed, with no or a valid leading comment,
\* succeeds; get_peers() then lists K, is one longer, and still lists every key
\* it listed before.
C7_AddPeerListsKey ==
    (/\ call.op = "add_peer" /\ call.coherent
     /\ ~NotAComment(call.comment)
     /\ Listed(before, TRUE).result = "ok"
     /\ ~Contains(Listed(before, TRUE).ret, call.key))
        => /\ call.result = "ok"
           /\ Listed(lines, FALSE).result = "ok"
           /\ LET b == Listed(before, FALSE).ret
                  a == Listed(lines, FALSE).ret
              IN /\ Contains(a, call.key)
                 /\ Len(a) = Len(b) + 1
                 /\ \A k \in DOMAIN b : Contains(a, b[k])

-----------------------------------------------------------------------------
(* C8 *)

\* the name in a line that parse_lines takes for a section header, <<>> for other lines
HeaderName(line) ==
    LET l == Strip(Replace(line, DISABLE_MARK)) IN
    IF StartsWith(l, <<"[">>) THEN Lower(Partition(Tail(l), "]").head) ELSE <<>>

\* the lines of a section that stand before its header
BeforeHeader(data) ==
    LET h == CHOOSE j \in DOMAIN data.rawdata :
                 /\ HeaderName(data.rawdata[j]) # <<>>
                 /\ \A i \in 1..(j - 1) : HeaderName(data.rawdata[i]) = <<>>
    IN SubSeq(data.rawdata, 1, h - 1)

\* The buffer parses, no two peer sections carry the same key, and only comment
\* lines stand between a blank line and the section header that follows it.
Tidy(lns) ==
    LET r == parse_lines(lns) IN
    /\ r.err = "ok"
    /\ Len(r.peers) = Cardinality({k \in DOMAIN lns : HeaderName(lns[k]) = <<"peer">>})
    /\ \A k \in DOMAIN r.peers :
          \A j \in DOMAIN BeforeHeader(r.peers[k].data) :
             IsCommentLine(BeforeHeader(r.peers[k].data)[j])

\* del_peer(K) was accepted by an object whose index, if built, matched a tidy buffer
DelPeerAccepted ==
    call.op = "del_peer" /\ call.result = "ok" /\ call.coherent /\ Tidy(before)

\* K is in neither list after the call
AbsentAfter ==
    /\ Listed(lines, FALSE).result = "ok"
    /\ ~Contains(Listed(lines, FALSE).ret, call.key)
    /\ ~Contains(Listed(lines, TRUE).ret, call.key)

-----------------------------------------------------------------------------
(* C9 *)

\* what the object answers now for key K
AnswersDisabled(key) ==
    /\ get_peer_enabled(Self, key).result = "ok"
    /\ get_peer_enabled(Self, key).ret = <<FALSE>>
    /\ ~Contains(get_peers(Self, FALSE).ret, key)
    /\ Contains(get_peers(Self, TRUE).ret, key)

AnswersEnabled(key) ==
    /\ get_peer_enabled(Self, key).result = "ok"
    /\ get_peer_enabled(Self, key).ret = <<TRUE>>
    /\ Contains(get_peers(Self, FALSE).ret, key)

\* C9: a key disabled by a successful disable_peer stays disabled (and listed only
\* with include_disabled) through every later call but enable_peer / del_peer of it;
\* after a successful enable_peer(K) the key is enabled and listed.
C9_DisabledUntilEnabled ==
    /\ \A key \in wasDisabled : AnswersDisabled(key)
    /\ (call.op = "enable_peer" /\ call.result = "ok") => AnswersEnabled(call.key)

-----------------------------------------------------------------------------
(* C10 *)

\* every peer a parse reports: all its lines marked when disabled, none when enabled
MarksConsistent(lns) ==
    LET r == parse_lines(lns) IN
    \A k \in DOMAIN r.peers :
       \A j \in DOMAIN r.peers[k].data.rawdata :
          StartsWith(r.peers[k].data.rawdata[j], DISABLE_MARK) = IsDisabled(r.peers[k].data)

\* C10: from a buffer that parses and whose peers are marked consistently, the calls
\* add_peer, del_peer, add_attr, del_attr, enable_peer and disable_peer keep every
\* peer marked consistently.
C10_MarksStayConsistent ==
    (origin # <<>> /\ WellMarked(origin)) => MarksConsistent(lines)

-----------------------------------------------------------------------------
(* C11 *)

\* the calls that address one section
SectionOps == {"del_peer", "add_attr", "del_attr", "enable_peer", "disable_peer"}

\* the header, attribute and comment lines within the bounds of a section
SectionLines(data) == SelectSeq(data.rawdata, LAMBDA line : line # <<>>)

\* a section after the call has the attributes and the lines it had before
SameSection(a, b) == a.attrs = b.attrs /\ SectionLines(a) = SectionLines(b)

\* the call names the Interface: add_attr and del_attr read the key None that way
OnInterface == call.op \in {"add_attr", "del_attr"} /\ call.key = NoneVal

\* every section of the index b other than the one the call names (the Interface,
\* or else the peer `key`) is in the index a with the same attributes and lines
OthersUntouched(a, b, onInterface, key) ==
    /\ a.err = "ok"
    /\ ~onInterface => SameSection(a.interface, b.interface)
    /\ \A k \in DOMAIN b.peers :
          (~onInterface /\ b.peers[k].key # key)
             => /\ PeerIndex(a.peers, b.peers[k].key) # 0
                /\ SameSection(a.peers[PeerIndex(a.peers, b.peers[k].key)].data,
                               b.peers[k].data)
    /\ onInterface
          => /\ Len(a.peers) = Len(b.peers)
             /\ \A k \in DOMAIN b.peers :
                   /\ a.peers[k].key = b.peers[k].key
                   /\ SameSection(a.peers[k].data, b.peers[k].data)

\* C11: a successful del_peer, add_attr, del_attr, enable_peer or disable_peer on one
\* section leaves every other section with the lines and the attributes it had.
C11_OtherSectionsUntouched ==
    (call.op \in SectionOps /\ call.result = "ok" /\ call.coherent
     /\ parse_lines(before).err = "ok")
        => OthersUntouched(parse_lines(lines), parse_lines(before), OnInterface, call.key)

-----------------------------------------------------------------------------
(* C12 *)

\* C12: after a successful disable_peer(K) or enable_peer(K) on a peer that get_peer(K)
\* returned before the call, get_peer(K) returns the same attributes and the same
\* first and last line.
C12_MarkKeepsAttributes ==
    (call.op \in {"enable_peer", "disable_peer"} /\ call.result = "ok" /\ call.seen # <<>>)
        => /\ Seen(Self, call.key) # <<>>
           /\ Seen(Self, call.key)[1].attrs = call.seen[1].attrs
           /\ Seen(Self, call.key)[1].firstline = call.seen[1].firstline
           /\ Seen(Self, call.key)[1].lastline = call.seen[1].lastline

-----------------------------------------------------------------------------
(* C13 *)

\* the call raised because the peer, the interface, the attribute or the value it
\* names is not there, or (add_peer) because the key is there already
TargetError ==
    \/ call.op \in {"get_peer", "get_peer_enabled", "del_peer", "enable_peer",
                     "disable_peer", "add_attr", "del_attr", "add_peer"}
       /\ call.result = "KeyError"
    \/ call.op = "del_attr" /\ call.result = "ValueError"

\* C13: a call that fails because its target does not exist, or because the key
\* add_peer is given exists already, leaves the buffer as it was.
C13_TargetErrorNoChange == TargetError => lines = before

\* add_peer refused for the key of a disabled peer
C13_Witness ==
    /\ call.op = "add_peer" /\ call.result = "KeyError"
    /\ Contains(Listed(before, TRUE).ret, call.key)
    /\ ~Contains(Listed(before, FALSE).ret, call.key)
    /\ lines = before

-----------------------------------------------------------------------------
(* C14 *)

\* what is in the buffer after the lines written by write_to_fileobj are read again
Reloaded(self) == read_from_fileobj(Fresh(<<>>), write_to_fileobj(self)).self

\* C14: after a load followed by queries only, write_to_fileobj writes the lines that
\* were loaded; reading what it writes and writing again gives the same lines; a
\* query never changes the buffer.
C14_LoadWriteRoundTrip ==
    /\ loaded # <<>> => write_to_fileobj(Self) = loaded[1]
    /\ write_to_fileobj(Reloaded(Self)) = write_to_fileobj(Self)
    /\ call.op \in Queries => lines = before

-----------------------------------------------------------------------------
(* C15 *)

\* the calls that look a peer up by the key they are given
KeyLookups == {"get_peer", "get_peer_enabled", "del_peer", "enable_peer", "disable_peer"}

\* line k is a Peer header and no line up to the next header sets the key attribute
KeylessHeader(lns, k) ==
    /\ HeaderName(lns[k]) = <<"peer">>
    /\ \A j \in (k + 1)..Len(lns) :
          (\A i \in (k + 1)..j : HeaderName(lns[i]) = <<>>)
             => \/ lns[j] = <<>>
                \/ IsCommentLine(lns[j])
                \/ parse_line(Strip(Replace(lns[j], DISABLE_MARK))).attr # keyattr

\* the record stored under the key None by a parse that does not raise, <<>> otherwise
KeylessPeer(lns) ==
    LET Stored(r) ==
            IF r.err = "ok" /\ PeerIndex(r.peers, NoneVal) # 0
            THEN <<r.peers[PeerIndex(r.peers, NoneVal)].data>> ELSE <<>>
    IN Stored(parse_lines(lns))

\* C15: a loaded text with supported headers only and a Peer section without the key
\* attribute parses, the section stored under None; a lookup by key does not find
\* that section, and a call that names a section by key leaves it as it was.
C15_KeylessPeerNeverMatched ==
    /\ (/\ call.op = "read_from_fileobj"
        /\ \E k \in DOMAIN lines : KeylessHeader(lines, k)
        /\ \A k \in DOMAIN lines : ~UnsupportedHeader(lines[k]))
          => KeylessPeer(lines) # <<>>
    /\ (call.op \in KeyLookups /\ KeylessPeer(before) # <<>>)
          => PeerIn(before, call.key) # KeylessPeer(before)
    /\ (call.op \in KeyLookups \cup {"add_attr", "del_attr"} /\ KeylessPeer(before) # <<>>)
          => /\ KeylessPeer(lines) # <<>>
             /\ SameSection(KeylessPeer(lines)[1], KeylessPeer(before)[1])

-----------------------------------------------------------------------------
(* C16 *)

\* the attribute dict the loop of parse_lines builds from the lines raw[k..]
RECURSIVE DecodedAttrs(_, _, _)
DecodedAttrs(raw, k, attrs) ==
    LET l == Strip(Replace(raw[k], DISABLE_MARK)) IN
    IF k > Len(raw) THEN attrs
    ELSE IF Len(l) = 0 \/ StartsWith(l, <<"[">>) \/ StartsWith(l, <<"#">>)
    THEN DecodedAttrs(raw, k + 1, attrs)
    ELSE DecodedAttrs(raw, k + 1, ExtendAttr(attrs, parse_line(l).attr, parse_line(l).value))

\* the sections of an index: the interface (if the buffer has one) and the peers
SectionRecords(r) ==
    (IF r.interface.firstline # <<>> THEN <<[kind |-> <<"interface">>, data |-> r.interface]>>
     ELSE <<>>)
    \o [k \in DOMAIN r.peers |-> [kind |-> <<"peer">>, data |-> r.peers[k].data]]

\* line i (zero-based) is decoded as an attribute by the loop of parse_lines
IsAttrLine(lns, i) ==
    LET l == Strip(Replace(At(lns, i), DISABLE_MARK)) IN
    ~(Len(l) = 0 \/ StartsWith(l, <<"[">>) \/ StartsWith(l, <<"#">>))

\* the lines from the header at h up to the next header: those the loop of
\* parse_lines handles while the section opened at h is the current one
Region(lns, h) ==
    {i \in h..(Len(lns) - 1) : \A j \in (h + 1)..i : HeaderName(At(lns, j)) = <<>>}

\* the bounds of one section: ordered, holding a header of its kind and the lines
\* decoded into its attributes, and ending with a line that is not blank
BoundsHold(lns, rec) ==
    LET first == rec.data.firstline[1]
        last == rec.data.lastline[1]
        Decoded(h) ==
            LET d == DecodedAttrs(Slice(lns, h, Max(Region(lns, h)) + 1), 1, <<>>) IN
            [k \in DOMAIN d |-> [name |-> d[k].name, value |-> Collapse(d[k].vals)]]
        Holds(h) ==
            /\ rec.data.attrs = Decoded(h)
            /\ \A i \in Region(lns, h) : IsAttrLine(lns, i) => i <= last
    IN /\ 0 <= first /\ first <= last /\ last < Len(lns)
       /\ \E i \in first..last : HeaderName(At(lns, i)) = rec.kind
       /\ Holds(Min({i \in first..last : HeaderName(At(lns, i)) = rec.kind}))
       /\ At(lns, last) # <<>>

Disjoint(a, b) == a.lastline[1] < b.firstline[1] \/ b.lastline[1] < a.firstline[1]

\* C16: in every buffer that parses, the bounds of each section are ordered, hold its
\* header and every line decoded into its attributes and no trailing blank line, and
\* the bounds of two sections do not overlap.
C16_SectionBounds ==
    LET r == parse_lines(lines)
        recs == SectionRecords(r)
    IN r.err = "ok"
          => /\ \A k \in DOMAIN recs : BoundsHold(lines, recs[k])
             /\ \A j, k \in DOMAIN recs : j # k => Disjoint(recs[j].data, recs[k].data)

-----------------------------------------------------------------------------
(* C17 *)

\* the values the section named by key reports for attr in the buffer lns: <<>> when
\* the section or the attribute is absent or the query raises
Values(lns, key, attr) ==
    LET Of(attrs) ==
            IF AttrIndex(attrs, attr) = 0 THEN <<>>
            ELSE attrs[AttrIndex(attrs, attr)].value.vals
        Interface(g) == IF g.result = "ok" THEN Of(g.ret) ELSE <<>>
        Peer(g) == IF g.result = "ok" THEN Of(get_filtered_dictionary(g.ret[1])) ELSE <<>>
    IN IF key = NoneVal THEN Interface(get_interface(Fresh(lns)))
       ELSE Peer(get_peer(Fresh(lns), key))

\* add_attr(S, A, v) without a leading comment was accepted on a section that had A
AddAttrExisting ==
    /\ call.op = "add_attr" /\ call.result = "ok" /\ call.comment = <<>>
    /\ Values(before, call.key, call.attr) # <<>>

\* the comment that follows the value on a line
TrailingComment(line) == Strip(parse_line(line).comment)

\* one line was rewritten and has the trailing comment it had
OneLineEdited ==
    /\ Len(lines) = Len(before)
    /\ \E i \in DOMAIN lines :
          /\ lines[i] # before[i]
          /\ TrailingComment(lines[i]) = TrailingComment(before[i])
          /\ \A j \in DOMAIN lines \ {i} : lines[j] = before[j]

\* C17: after add_attr(S, A, v) on a section that has A, the values reported for A
\* are the ones reported before followed by v; with append_as_new_line false the
\* buffer has as many lines as before and the rewritten line keeps its comment.
C17_AddAttrAppendsValue ==
    AddAttrExisting
       => /\ Values(lines, call.key, call.attr)
                = Append(Values(before, call.key, call.attr), call.value)
          /\ ~call.flag => OneLineEdited

-----------------------------------------------------------------------------
(* C18 *)

\* the section headers of a buffer, disabled ones included, in order
Headers(lns) == SelectSeq(lns, LAMBDA line : HeaderName(line) # <<>>)

\* the lines, marked or not, that parse_lines decodes into an attribute other than attr
OtherAttrLines(lns, attr) ==
    SelectSeq(lns, LAMBDA line :
        /\ IsAttrLine(<<line>>, 0)
        /\ parse_line(Strip(Replace(line, DISABLE_MARK))).attr # attr)

\* the bounds get_sectioninfo gives for the section in the buffer lns, <<>> if it raises
Bounds(lns, key) ==
    LET Of(info) == IF info.result = "ok" THEN info.ret ELSE <<>>
    IN Of(get_sectioninfo(Fresh(lns), key))

\* the lines before the first line of the section and those after its last line
Outside(lns, bounds) ==
    <<Slice(lns, 0, bounds[1]), Slice(lns, bounds[2] + 1, Len(lns))>>

\* the buffer `after` has the lines of `outside` before and after what is left of the section
OutsideKept(after, outside) ==
    /\ Len(after) >= Len(outside[1]) + Len(outside[2])
    /\ Slice(after, 0, Len(outside[1])) = outside[1]
    /\ Slice(after, Len(after) - Len(outside[2]), Len(after)) = outside[2]

\* C18: del_attr(S, A, value, remove_leading_comments=True), once accepted, has left
\* every section header, every line that carries another attribute (marked or not)
\* and every line outside the bounds of S as they were.
C18_DelAttrTouchesOnlyAttr ==
    (/\ call.op = "del_attr" /\ call.result = "ok" /\ call.flag
     /\ Bounds(before, call.key) # <<>>)
       => /\ Headers(lines) = Headers(before)
          /\ OtherAttrLines(lines, call.attr) = OtherAttrLines(before, call.attr)
          /\ OutsideKept(lines, Outside(before, Bounds(before, call.key)))

-----------------------------------------------------------------------------
(* C19 *)

\* del_peer(K) directly follows an accepted add_peer(K) that started from a buffer
\* which parsed and had no peer K
AddThenDelPeer ==
    /\ Follows("del_peer", "add_peer")
    /\ Listed(prev.before, TRUE).result = "ok"
    /\ ~Contains(Listed(prev.before, TRUE).ret, call.key)

\* C19: del_peer(K) directly after add_peer(K, leading_comment) for a key K that was
\* not present is accepted and leaves the buffer exactly as it was before the add_peer.
C19_AddDelPeerRestores ==
    AddThenDelPeer => call.result = "ok" /\ lines = prev.before

-----------------------------------------------------------------------------
(* C20 *)

\* the peer sections the buffer holds, by their header lines
PeerHeaders(lns) == SelectSeq(lns, LAMBDA line : HeaderName(line) = <<"peer">>)

\* C20: on an object that was initialized and then only given accepted add_peer,
\* del_peer, add_attr, del_attr, enable_peer and disable_peer calls (and queries),
\* the buffer parses, get_peers(include_disabled=True) lists exactly the keys added
\* and not removed, each once, and get_peer finds each of them.
C20_PeersAreKeysAdded ==
    added # <<>>
       => /\ Listed(lines, TRUE).result = "ok"
          /\ {Listed(lines, TRUE).ret[k] : k \in DOMAIN Listed(lines, TRUE).ret} = added[1]
          /\ Len(Listed(lines, TRUE).ret) = Cardinality(added[1])
          /\ Len(PeerHeaders(lines)) = Cardinality(added[1])
          /\ \A key \in added[1] : PeerIn(lines, key) # <<>>

====
